---- MODULE Spec2Model ----
(***************************************************************************)
(* Model of the dependency scheduler and the retry/repair control loop of  *)
(* plan-agent-cli: DAGraph (src/src/scheduler/DAGraph.ts), TaskScheduler   *)
(* (src/unnamed/part_003), RunAgent.executeTask, QualityAgent /            *)
(* Validator, and AgentOrchestrator.execute.                               *)
(*                                                                         *)
(* Task ids are the integers 1..MaxTasks.  A JavaScript Map or Set keeps   *)
(* insertion order, so Maps are modelled by a sequence of keys plus a      *)
(* function, and the adjacency Sets by duplicate-free sequences.           *)
(***************************************************************************)
EXTENDS Integers, Sequences, FiniteSets, TLC

\* ------------------------------------------------------------------ bounds
MaxTasks == 3          \* tasks of a plan / node ids of a graph
MaxRetriesBound == 1   \* config.execution.maxRetries ranges over 0..MaxRetriesBound
MaxEdges == 3          \* edges a graph of SpecGraph holds at most
SmallConcurrency == 2  \* a configured RunAgent.maxConcurrentTasks that can bind
DefaultMaxConcurrentTasks == 5
DefaultMaxRetries == 3
MaxDeps == 1           \* dependencies a node of SpecGraph declares at most
MaxDepId == 2          \* ids a node of SpecGraph may declare as a dependency: 1..MaxDepId
MaxQueueTasks == 3     \* tasks added to a TaskQueue
MaxPriority == 1       \* priorities of queued tasks: 0..MaxPriority
MaxConcurrentBound == 2 \* maxConcurrent of a TaskQueue ranges over 1..MaxConcurrentBound
MaxLiveTasks == 2       \* tasks added to a TaskQueue in SpecQueueLive
DefaultMaxConcurrent == 3

Ids == 1..MaxTasks

QIds == 1..MaxQueueTasks

\* ------------------------------------------------------------------ state
VARIABLES
    \* DAGraph
    nodes,            \* Map nodes: sequence of [id, dependencies] in insertion order
    adjacencyList,    \* Map adjacencyList: id -> sequence of successor ids
    inDegree,         \* Map inDegree: id -> number
    \* TaskScheduler
    completedTasks, failedTasks,
    taskStatus,       \* Task.status of the Task objects held by taskMap
    \* RunAgent
    executingTasks, maxConcurrentTasks,
    \* AgentOrchestrator
    status, maxRetries,
    plan,             \* plan.tasks: sequence of [id, dependencies]
    schedule,         \* the ScheduleResult of getExecutionPlan()
    pc,               \* position of execute(): idle, planning, await_layer, done, threw
    thrown,           \* message of the error the last call threw, "none" if none
    layerIdx,         \* index of the layer execute() is awaiting
    layerResults,     \* executeLayer's local results array
    results,          \* execute's results array
    summary,          \* the ExecutionSummary returned
    \* executeTaskWithRetry, one activation per task
    tpc,              \* position: wait, executor, rejected, quality, done
    retryCount, currentTask,
    lastResult,       \* null, ok, fail, or limit for "Max concurrent tasks reached"
    qualityReport,    \* overallStatus of the last QualityReport received, or "none"
    \* history
    execCount,        \* calls of runAgent.executeTask per task id
    markedFailed,     \* ids ever passed to markFailed
    returned,         \* what the last call of getNextExecutableTasks() returned
    \* TaskQueue
    queue,            \* the pending list: task ids, head first
    running, maxConcurrent, isPaused, taskCounter,
    qPriority,        \* QueuedTask.priority per task id
    qTimeout,         \* whether QueuedTask.timeout is set (non-zero) per task id
    ppc,              \* the processNext activation of a task: none, pending, awaiting,
                      \* settled (executeWithTimeout's promise settled), done
    fnState,          \* the task function: idle, running, resolved, rejected
    raceState,        \* executeWithTimeout's promise: pending, resolved, rejected, timeout
    timerState,       \* the setTimeout of executeWithTimeout: none, armed, fired, cleared
    promiseState,     \* the promise add() returned: pending, resolved, rejected,
                      \* timeout, cleared
    settleCalls,      \* calls of task.resolve / task.reject per task id
    drainPc           \* a drain() call: idle, waiting, resolved

graphVars == <<nodes, adjacencyList, inDegree>>
schedVars == <<completedTasks, failedTasks, taskStatus, markedFailed>>
runVars   == <<executingTasks, maxConcurrentTasks, status, maxRetries, plan, pc,
               layerIdx, layerResults, results, summary, tpc, retryCount,
               lastResult, currentTask, qualityReport, execCount>>
queueVars == <<queue, running, maxConcurrent, isPaused, taskCounter, qPriority, qTimeout,
               ppc, fnState, raceState, timerState, promiseState, settleCalls, drainPc>>
\* what a run of execute() and the graph operations leave alone
restVars == <<returned, queueVars>>
vars == <<graphVars, schedVars, runVars, schedule, thrown, restVars>>

\* ------------------------------------------------------------------ helpers
Range(s) == {s[i] : i \in DOMAIN s}

Contains(s, x) == \E i \in DOMAIN s : s[i] = x

Remove(s, x) == SelectSeq(s, LAMBDA y : y # x)

RECURSIVE IdsOf(_)
IdsOf(ns) == IF ns = <<>> THEN <<>> ELSE <<Head(ns).id>> \o IdsOf(Tail(ns))

\* this.nodes.keys()
NodeKeys == IdsOf(nodes)

NodeSet == Range(NodeKeys)

\* this.adjacencyList.get(nodeId) || new Set()
Neighbors(adj, n) == IF n \in DOMAIN adj THEN adj[n] ELSE <<>>

EmptyMap == [x \in {} |-> 0]

\* ------------------------------------------------------------------ DAGraph
\* hasCycle(): the inner dfs closure.  st = [visited, stack, found].
RECURSIVE Dfs(_, _, _), DfsNeighbors(_, _, _, _)
DfsNeighbors(adj, nbrs, i, st) ==
    IF i > Len(nbrs) THEN st
    ELSE IF nbrs[i] \notin st.visited
         THEN LET r == Dfs(adj, nbrs[i], st)
              IN IF r.found THEN r ELSE DfsNeighbors(adj, nbrs, i + 1, r)
         ELSE IF nbrs[i] \in st.stack
              THEN [st EXCEPT !.found = TRUE]
              ELSE DfsNeighbors(adj, nbrs, i + 1, st)

Dfs(adj, n, st) ==
    LET entered == [visited |-> st.visited \cup {n},
                    stack   |-> st.stack \cup {n},
                    found   |-> FALSE]
        r == DfsNeighbors(adj, Neighbors(adj, n), 1, entered)
    IN IF r.found THEN r ELSE [r EXCEPT !.stack = r.stack \ {n}]

\* Variant: only the first node of nodes.keys() starts a traversal.
HasCycleFrom_FirstOnly(keys, adj, i, st) ==
    IF i > Len(keys) THEN FALSE ELSE Dfs(adj, keys[i], st).found

RECURSIVE HasCycleFrom(_, _, _, _)
HasCycleFrom(keys, adj, i, st) ==
    IF i > Len(keys) THEN FALSE
    ELSE IF keys[i] \notin st.visited
         THEN LET r == Dfs(adj, keys[i], st)
              IN IF r.found THEN TRUE ELSE HasCycleFrom(keys, adj, i + 1, r)
         ELSE HasCycleFrom(keys, adj, i + 1, st)

\* Variant: no cycle is ever reported.
HasCycle_Never(keys, adj) == FALSE

HasCycle(keys, adj) ==
    HasCycleFrom(keys, adj, 1, [visited |-> {}, stack |-> {}, found |-> FALSE])

\* findCycleNodes(): the inner dfs closure.  st = [visited, stack, path, cycle, found].
IndexOf(s, x) == IF Contains(s, x) THEN CHOOSE i \in DOMAIN s : s[i] = x /\ \A j \in 1..(i - 1) : s[j] # x
                 ELSE 0

\* Variant: the whole path is taken, not the part from the repeated node on.
SliceFrom_WholePath(s, x) == s

\* path.slice(cycleStartIndex); indexOf's -1 makes slice(-1) the last element
SliceFrom(s, x) ==
    IF Contains(s, x) THEN SubSeq(s, IndexOf(s, x), Len(s))
    ELSE IF s = <<>> THEN <<>> ELSE <<s[Len(s)]>>

RECURSIVE CycleDfs(_, _, _), CycleDfsNeighbors(_, _, _, _)
CycleDfsNeighbors(adj, nbrs, i, st) ==
    IF i > Len(nbrs) THEN st
    ELSE IF nbrs[i] \notin st.visited
         THEN LET r == CycleDfs(adj, nbrs[i], st)
              IN IF r.found THEN r ELSE CycleDfsNeighbors(adj, nbrs, i + 1, r)
         ELSE IF nbrs[i] \in st.stack
              THEN [st EXCEPT !.found = TRUE,
                              !.cycle = st.cycle \o SliceFrom(st.path, nbrs[i])]
              ELSE CycleDfsNeighbors(adj, nbrs, i + 1, st)

CycleDfs(adj, n, st) ==
    LET entered == [st EXCEPT !.visited = st.visited \cup {n},
                              !.stack = st.stack \cup {n},
                              !.path = Append(st.path, n)]
        r == CycleDfsNeighbors(adj, Neighbors(adj, n), 1, entered)
    IN IF r.found THEN r
       ELSE [r EXCEPT !.path = SubSeq(r.path, 1, Len(r.path) - 1),
                      !.stack = r.stack \ {n}]

RECURSIVE FindCycleFrom(_, _, _, _)
FindCycleFrom(keys, adj, i, st) ==
    IF i > Len(keys) THEN st.cycle
    ELSE IF keys[i] \notin st.visited
         THEN LET r == CycleDfs(adj, keys[i], [st EXCEPT !.path = <<>>])
              IN IF r.found THEN r.cycle ELSE FindCycleFrom(keys, adj, i + 1, r)
         ELSE FindCycleFrom(keys, adj, i + 1, st)

\* [...new Set(cycleNodes)]
RECURSIVE Dedup(_)
Dedup(s) ==
    IF s = <<>> THEN <<>>
    ELSE LET front == Dedup(SubSeq(s, 1, Len(s) - 1))
         IN IF Contains(front, s[Len(s)]) THEN front ELSE Append(front, s[Len(s)])

FindCycleNodes(keys, adj) ==
    Dedup(FindCycleFrom(keys, adj, 1,
        [visited |-> {}, stack |-> {}, path |-> <<>>, cycle |-> <<>>, found |-> FALSE]))

\* Variant: the successors' in-degrees are left as they were.
DecrementSuccessors_NoUpdate(succ, i, deg) == deg

\* topologicalSort(): one pass of "for (const nodeId of currentLayer)":
\* delete the node from the clone, decrement the successors still in it.
RECURSIVE DecrementSuccessors(_, _, _)
DecrementSuccessors(succ, i, deg) ==
    IF i > Len(succ) THEN deg
    ELSE DecrementSuccessors(succ, i + 1,
            IF succ[i] \in DOMAIN deg
            THEN [deg EXCEPT ![succ[i]] = deg[succ[i]] - 1]
            ELSE deg)

RECURSIVE RemoveLayer(_, _, _, _)
RemoveLayer(layer, i, adj, deg) ==
    IF i > Len(layer) THEN deg
    ELSE LET deleted == [k \in DOMAIN deg \ {layer[i]} |-> deg[k]]
         IN RemoveLayer(layer, i + 1, adj,
                DecrementSuccessors(Neighbors(adj, layer[i]), 1, deleted))

\* Variant: a layer takes only the first node whose in-degree is zero.
RECURSIVE KahnLayers_OneAtATime(_, _, _, _)
KahnLayers_OneAtATime(keys, adj, deg, result) ==
    IF keys = <<>> THEN [threw |-> FALSE, layers |-> result]
    ELSE LET zero == SelectSeq(keys, LAMBDA k : deg[k] = 0)
             currentLayer == IF zero = <<>> THEN <<>> ELSE <<Head(zero)>>
         IN IF currentLayer = <<>>
            THEN [threw |-> TRUE, layers |-> <<>>]
            ELSE KahnLayers_OneAtATime(SelectSeq(keys, LAMBDA k : ~Contains(currentLayer, k)),
                                       adj,
                                       RemoveLayer(currentLayer, 1, adj, deg),
                                       Append(result, currentLayer))

\* the while loop of topologicalSort over inDegreeClone (keys: its key order)
RECURSIVE KahnLayers(_, _, _, _)
KahnLayers(keys, adj, deg, result) ==
    IF keys = <<>> THEN [threw |-> FALSE, layers |-> result]
    ELSE LET currentLayer == SelectSeq(keys, LAMBDA k : deg[k] = 0)
         IN IF currentLayer = <<>>
            THEN [threw |-> TRUE, layers |-> <<>>]
            ELSE KahnLayers(SelectSeq(keys, LAMBDA k : ~Contains(currentLayer, k)),
                            adj,
                            RemoveLayer(currentLayer, 1, adj, deg),
                            Append(result, currentLayer))

TopologicalSort(keys, adj, deg) ==
    IF HasCycle(keys, adj)
    THEN [threw |-> TRUE, layers |-> <<>>]
    ELSE KahnLayers(keys, adj, deg, <<>>)

\* getZeroInDegreeNodes()
GetZeroInDegreeNodes(keys, deg) == SelectSeq(keys, LAMBDA k : deg[k] = 0)

\* A graph value g = [nodes, adj, deg]; the operations return the new graph and,
\* for the ones that can throw, the message.
Graph(ns, adj, deg) == [nodes |-> ns, adj |-> adj, deg |-> deg]

EmptyGraph == Graph(<<>>, EmptyMap, EmptyMap)

HasNode(g, id) == Contains(IdsOf(g.nodes), id)

Extend(f, k, v) == [x \in DOMAIN f \cup {k} |-> IF x = k THEN v ELSE f[x]]

Without(f, k) == [x \in DOMAIN f \ {k} |-> f[x]]

\* Variant: addNode without the has() test: the Map entries are overwritten.
AddNode_Overwrites(g, node) ==
    [g |-> Graph(IF HasNode(g, node.id) THEN g.nodes ELSE Append(g.nodes, node),
                 Extend(g.adj, node.id, <<>>),
                 Extend(g.deg, node.id, 0)),
     thrown |-> "none"]

\* addNode(node)
AddNode(g, node) ==
    IF HasNode(g, node.id)
    THEN [g |-> g, thrown |-> "node already exists"]
    ELSE [g |-> Graph(Append(g.nodes, node),
                      Extend(g.adj, node.id, <<>>),
                      Extend(g.deg, node.id, 0)),
          thrown |-> "none"]

\* Variant: only the source endpoint is tested; a missing target gets entries.
AddEdge_NoTargetCheck(g, from, to) ==
    IF ~HasNode(g, from) THEN [g |-> g, thrown |-> "source node does not exist"]
    ELSE IF ~Contains(g.adj[from], to)
         THEN [g |-> Graph(g.nodes,
                           [g.adj EXCEPT ![from] = Append(g.adj[from], to)],
                           Extend(g.deg, to, (IF to \in DOMAIN g.deg THEN g.deg[to] ELSE 0) + 1)),
               thrown |-> "none"]
         ELSE [g |-> g, thrown |-> "none"]

\* Variant: the in-degree is counted on every call.
AddEdge_AlwaysCounts(g, from, to) ==
    IF ~HasNode(g, from) THEN [g |-> g, thrown |-> "source node does not exist"]
    ELSE IF ~HasNode(g, to) THEN [g |-> g, thrown |-> "target node does not exist"]
    ELSE [g |-> Graph(g.nodes,
                      [g.adj EXCEPT ![from] = IF Contains(g.adj[from], to) THEN g.adj[from]
                                              ELSE Append(g.adj[from], to)],
                      [g.deg EXCEPT ![to] = g.deg[to] + 1]),
          thrown |-> "none"]

\* addEdge(from, to)
AddEdge(g, from, to) ==
    IF ~HasNode(g, from) THEN [g |-> g, thrown |-> "source node does not exist"]
    ELSE IF ~HasNode(g, to) THEN [g |-> g, thrown |-> "target node does not exist"]
    ELSE IF from \in DOMAIN g.adj /\ ~Contains(g.adj[from], to)
         THEN [g |-> Graph(g.nodes,
                           [g.adj EXCEPT ![from] = Append(g.adj[from], to)],
                           [g.deg EXCEPT ![to] = g.deg[to] + 1]),
               thrown |-> "none"]
         ELSE [g |-> g, thrown |-> "none"]

\* buildFromDependencies(): for each node in order, for each dependency that is a node
RECURSIVE AddDependencyEdges(_, _, _), BuildFrom(_, _)
AddDependencyEdges(g, nodeId, deps) ==
    IF deps = {} THEN g
    ELSE LET d == CHOOSE x \in deps : \A y \in deps : x <= y
             next == IF HasNode(g, d) THEN AddEdge(g, d, nodeId).g ELSE g
         IN AddDependencyEdges(next, nodeId, deps \ {d})

BuildFrom(g, i) ==
    IF i > Len(g.nodes) THEN g
    ELSE BuildFrom(AddDependencyEdges(g, g.nodes[i].id, g.nodes[i].dependencies), i + 1)

\* Variant: only the first node's dependencies become edges.
BuildFromDependencies_FirstNodeOnly(g) ==
    IF g.nodes = <<>> THEN g
    ELSE AddDependencyEdges(g, g.nodes[1].id, g.nodes[1].dependencies)

BuildFromDependencies(g) == BuildFrom(g, 1)

\* Variant: the successors' in-degrees are not updated.
DecrementPositive_None(succ, i, deg) == deg

\* removeNode(nodeId)
RECURSIVE DecrementPositive(_, _, _)
DecrementPositive(succ, i, deg) ==
    IF i > Len(succ) THEN deg
    ELSE DecrementPositive(succ, i + 1,
            IF succ[i] \in DOMAIN deg /\ deg[succ[i]] > 0
            THEN [deg EXCEPT ![succ[i]] = deg[succ[i]] - 1]
            ELSE deg)

\* Variant: the node stays in the adjacency sets of its predecessors.
RemoveNode_KeepsIncoming(g, nodeId) ==
    IF ~HasNode(g, nodeId) THEN g
    ELSE LET deg1 == DecrementPositive(Neighbors(g.adj, nodeId), 1, g.deg)
         IN Graph(SelectSeq(g.nodes, LAMBDA n : n.id # nodeId),
                  Without(g.adj, nodeId),
                  Without(deg1, nodeId))

RemoveNode(g, nodeId) ==
    IF ~HasNode(g, nodeId) THEN g
    ELSE LET deg1 == DecrementPositive(Neighbors(g.adj, nodeId), 1, g.deg)
             adj1 == [k \in DOMAIN g.adj |-> Remove(g.adj[k], nodeId)]
         IN Graph(SelectSeq(g.nodes, LAMBDA n : n.id # nodeId),
                  Without(adj1, nodeId),
                  Without(deg1, nodeId))

TheGraph == Graph(nodes, adjacencyList, inDegree)

\* ------------------------------------------------------------------ TaskScheduler
\* A scheduler value s = [g, completed, failed, status], with the history of
\* markFailed calls in marked.
Sched == [g |-> TheGraph, completed |-> completedTasks, failed |-> failedTasks,
          status |-> taskStatus, marked |-> markedFailed]

EmptySched == [g |-> EmptyGraph, completed |-> {}, failed |-> {}, status |-> EmptyMap,
               marked |-> {}]

SetStatus(st, taskId, v) ==
    IF taskId \in DOMAIN st THEN [st EXCEPT ![taskId] = v] ELSE st

\* addTasksFromArray(tasks): addTask for each, stopping at the first that throws
RECURSIVE AddTasksFrom(_, _, _)
AddTasksFrom(s, tasks, i) ==
    IF i > Len(tasks) THEN [s |-> s, thrown |-> "none"]
    ELSE LET r == AddNode(s.g, [id |-> tasks[i].id, dependencies |-> tasks[i].dependencies])
         IN IF r.thrown # "none" THEN [s |-> s, thrown |-> r.thrown]
            ELSE AddTasksFrom([s EXCEPT !.g = r.g,
                                        !.status = Extend(s.status, tasks[i].id, "pending")],
                              tasks, i + 1)

AddTasksFromArray(s, tasks) == AddTasksFrom(s, tasks, 1)

\* buildGraph()
BuildGraph(s) == [s EXCEPT !.g = BuildFromDependencies(s.g)]

\* getExecutionPlan()
GetExecutionPlan(g) ==
    IF HasCycle(IdsOf(g.nodes), g.adj)
    THEN [executionOrder |-> <<>>, hasCycle |-> TRUE,
          cycleNodes |-> FindCycleNodes(IdsOf(g.nodes), g.adj), threw |-> FALSE]
    ELSE LET sorted == TopologicalSort(IdsOf(g.nodes), g.adj, g.deg)
         IN [executionOrder |-> sorted.layers, hasCycle |-> FALSE,
             cycleNodes |-> <<>>, threw |-> sorted.threw]

NoSchedule == [executionOrder |-> <<>>, hasCycle |-> FALSE, cycleNodes |-> <<>>,
               threw |-> FALSE]

\* Variant: every pending task is returned, whatever its in-degree.
GetNextExecutableTasks_AllPending(s) ==
    SelectSeq(IdsOf(s.g.nodes),
              LAMBDA n : /\ n \notin s.completed
                         /\ n \notin s.failed
                         /\ n \in DOMAIN s.status
                         /\ s.status[n] = "pending")

\* getNextExecutableTasks()
GetNextExecutableTasks(s) ==
    SelectSeq(GetZeroInDegreeNodes(IdsOf(s.g.nodes), s.g.deg),
              LAMBDA n : /\ n \notin s.completed
                         /\ n \notin s.failed
                         /\ n \in DOMAIN s.status
                         /\ s.status[n] = "pending")

\* getTask(taskId): the version of the payload held by taskMap, -1 for undefined.
\* taskMap.set is called by addTask only, so the entry is the task as planned
\* (version 0) with its status field updated in place.
GetTaskPayload(s, taskId) == IF taskId \in DOMAIN s.status THEN 0 ELSE -1

\* markCompleted(taskId)
MarkCompleted(s, taskId) ==
    [s EXCEPT !.completed = s.completed \cup {taskId},
              !.status = SetStatus(s.status, taskId, "completed"),
              !.g = RemoveNode(s.g, taskId)]

\* Variant: markFailed also removes the node from the graph.
MarkFailed_RemovesNode(s, taskId) ==
    [s EXCEPT !.failed = s.failed \cup {taskId},
              !.status = SetStatus(s.status, taskId, "failed"),
              !.marked = s.marked \cup {taskId},
              !.g = RemoveNode(s.g, taskId)]

\* markFailed(taskId)
MarkFailed(s, taskId) ==
    [s EXCEPT !.failed = s.failed \cup {taskId},
              !.status = SetStatus(s.status, taskId, "failed"),
              !.marked = s.marked \cup {taskId}]

\* markExecuting(taskId)
MarkExecuting(s, taskId) ==
    [s EXCEPT !.status = SetStatus(s.status, taskId, "executing")]

\* markRetrying(taskId)
MarkRetrying(s, taskId) ==
    [s EXCEPT !.failed = s.failed \ {taskId},
              !.status = SetStatus(s.status, taskId, "retrying")]

SetGraph(g) ==
    /\ nodes' = g.nodes
    /\ adjacencyList' = g.adj
    /\ inDegree' = g.deg

SetSched(s) ==
    /\ SetGraph(s.g)
    /\ completedTasks' = s.completed
    /\ failedTasks' = s.failed
    /\ taskStatus' = s.status
    /\ markedFailed' = s.marked

\* ------------------------------------------------------------------ RunAgent, QualityAgent
\* The part of the state one activation of executeTaskWithRetry reads and writes.
Run == [s |-> Sched, executing |-> executingTasks, tpc |-> tpc,
        retryCount |-> retryCount, lastResult |-> lastResult,
        currentTask |-> currentTask, qualityReport |-> qualityReport,
        execCount |-> execCount, layerResults |-> layerResults]

SetRun(r) ==
    /\ SetSched(r.s)
    /\ executingTasks' = r.executing
    /\ tpc' = r.tpc
    /\ retryCount' = r.retryCount
    /\ lastResult' = r.lastResult
    /\ currentTask' = r.currentTask
    /\ qualityReport' = r.qualityReport
    /\ execCount' = r.execCount
    /\ layerResults' = r.layerResults

\* Variant: executeTask without the concurrency check.
ExecuteTaskCall_NoLimit(r, t) ==
    [r EXCEPT !.executing = r.executing \cup {t},
              !.tpc[t] = "executor",
              !.execCount[t] = r.execCount[t] + 1]

\* RunAgent.executeTask(task) up to its first suspension: the concurrency check
\* returns a failed result at once, otherwise the task joins executingTasks and
\* the call waits for taskExecutor.execute.
ExecuteTaskCall(r, t) ==
    IF Cardinality(r.executing) >= maxConcurrentTasks
    THEN [r EXCEPT !.tpc[t] = "rejected",
                   !.execCount[t] = r.execCount[t] + 1]
    ELSE [r EXCEPT !.executing = r.executing \cup {t},
                   !.tpc[t] = "executor",
                   !.execCount[t] = r.execCount[t] + 1]

\* Validator.validate: a failed execution is invalid whatever the model answers
Validate(resultSuccess, modelValid) == resultSuccess /\ modelValid

\* ------------------------------------------------------------------ AgentOrchestrator
Result(t, success) == [taskId |-> t, success |-> success]

\* Variant: the result of a task that failed is not pushed.
FinishFailed_NoResult(r, t) ==
    [r EXCEPT !.s = MarkFailed(r.s, t),
              !.tpc[t] = "done"]

\* executeTaskWithRetry after the loop: markFailed, return lastResult or the
\* synthetic result; executeLayer pushes what is returned.
FinishFailed(r, t) ==
    [r EXCEPT !.s = MarkFailed(r.s, t),
              !.tpc[t] = "done",
              !.layerResults = Append(r.layerResults,
                    IF r.lastResult[t] = "null" THEN Result(t, FALSE)
                    ELSE Result(t, r.lastResult[t] = "ok"))]

\* Variant: after markCompleted the task is handed to the executor once more.
FinishCompleted_RunsAgain(r, t) ==
    ExecuteTaskCall([r EXCEPT !.s = MarkCompleted(r.s, t)], t)

\* executeTaskWithRetry, validation passed: markCompleted, return result
FinishCompleted(r, t) ==
    [r EXCEPT !.s = MarkCompleted(r.s, t),
              !.tpc[t] = "done",
              !.layerResults = Append(r.layerResults, Result(t, r.lastResult[t] = "ok"))]

\* Variant: the loop grants one attempt more.
LoopTest_OneMore(r, t) ==
    IF r.retryCount[t] <= maxRetries + 1 THEN ExecuteTaskCall(r, t) ELSE FinishFailed(r, t)

\* Variant: the loop grants one attempt less.
LoopTest_Strict(r, t) ==
    IF r.retryCount[t] < maxRetries THEN ExecuteTaskCall(r, t) ELSE FinishFailed(r, t)

\* the test of "while (retryCount <= this.maxRetries)" and what follows it
LoopTest(r, t) ==
    IF r.retryCount[t] <= maxRetries THEN ExecuteTaskCall(r, t) ELSE FinishFailed(r, t)

\* executeTaskWithRetry(task) up to its first suspension
StartTask(r, t) ==
    LoopTest([r EXCEPT !.s = MarkExecuting(r.s, t),
                       !.retryCount[t] = 0,
                       !.lastResult[t] = "null",
                       !.currentTask[t] = 0,
                       !.qualityReport[t] = "none"], t)

PlanIds == Range(IdsOf(plan))

\* Variant: once a task has been marked Failed no further task is started.
RECURSIVE StartLayer_StopOnFailure(_, _, _, _)
StartLayer_StopOnFailure(r, layer, i, planIds) ==
    IF i > Len(layer) \/ r.s.marked # {} THEN r
    ELSE StartLayer_StopOnFailure(
            IF layer[i] \in planIds THEN StartTask(r, layer[i]) ELSE r,
            layer, i + 1, planIds)

\* executeLayer(taskIds, plan): the ids that are no task of the plan are filtered
\* out, tasks.map(async ...) starts every task in order
RECURSIVE StartLayer(_, _, _, _)
StartLayer(r, layer, i, planIds) ==
    IF i > Len(layer) THEN r
    ELSE StartLayer(IF layer[i] \in planIds THEN StartTask(r, layer[i]) ELSE r,
                    layer, i + 1, planIds)

\* createExecutionSummary(plan, results, ...)
CreateExecutionSummary(tasks, rs) ==
    LET completed == Cardinality({i \in DOMAIN rs : rs[i].success})
        failed == Len(rs) - completed
    IN [success |-> failed = 0, totalTasks |-> Len(tasks),
        completedTasks |-> completed, failedTasks |-> failed, results |-> rs]

NoSummary == [success |-> FALSE, totalTasks |-> 0, completedTasks |-> 0,
              failedTasks |-> 0, results |-> <<>>]

\* The plans the planner may return: tasks with the ids 1..n in order, each
\* declaring any set of ids as dependencies (its own id and ids of no task included).
PlanOf(deps) == [i \in DOMAIN deps |-> [id |-> i, dependencies |-> deps[i]]]

Plans == UNION {{PlanOf(deps) : deps \in [1..n -> SUBSET Ids]} : n \in 0..MaxTasks}

\* new TaskQueue(), maxConcurrent left open
QueueConstructed ==
    /\ queue = <<>> /\ running = 0 /\ isPaused = FALSE /\ taskCounter = 0
    /\ qPriority = [t \in QIds |-> 0]
    /\ qTimeout = [t \in QIds |-> FALSE]
    /\ ppc = [t \in QIds |-> "none"]
    /\ fnState = [t \in QIds |-> "idle"]
    /\ raceState = [t \in QIds |-> "pending"]
    /\ timerState = [t \in QIds |-> "none"]
    /\ promiseState = [t \in QIds |-> "pending"]
    /\ settleCalls = [t \in QIds |-> 0]
    /\ drainPc = "idle"

\* The state after construction, the configuration left open.
Constructed ==
    /\ returned = <<>>
    /\ QueueConstructed
    /\ nodes = <<>> /\ adjacencyList = EmptyMap /\ inDegree = EmptyMap
    /\ completedTasks = {} /\ failedTasks = {} /\ taskStatus = EmptyMap
    /\ markedFailed = {}
    /\ executingTasks = {}
    /\ status = "idle"
    /\ plan = <<>>
    /\ schedule = NoSchedule
    /\ pc = "idle"
    /\ thrown = "none"
    /\ layerIdx = 0
    /\ layerResults = <<>>
    /\ results = <<>>
    /\ summary = NoSummary
    /\ tpc = [t \in Ids |-> "wait"]
    /\ retryCount = [t \in Ids |-> 0]
    /\ lastResult = [t \in Ids |-> "null"]
    /\ currentTask = [t \in Ids |-> 0]
    /\ qualityReport = [t \in Ids |-> "none"]
    /\ execCount = [t \in Ids |-> 0]

Init ==
    /\ maxConcurrent = DefaultMaxConcurrent
    /\ maxConcurrentTasks \in {SmallConcurrency, DefaultMaxConcurrentTasks}
    /\ maxRetries \in 0..MaxRetriesBound
    /\ Constructed

taskVars == <<tpc, retryCount, lastResult, currentTask, qualityReport, execCount,
              layerResults, executingTasks>>

\* execute(input) up to "await this.planAgent.analyze(input)" in createPlan
Execute ==
    /\ pc = "idle"
    /\ status' = "planning"
    /\ pc' = "planning"
    /\ UNCHANGED <<restVars, graphVars, schedVars, taskVars, maxConcurrentTasks, maxRetries,
                   plan, schedule, thrown, layerIdx, results, summary>>

\* planAgent.analyze throws: createPlan and execute set FAILED and rethrow
PlanFails ==
    /\ pc = "planning"
    /\ status' = "failed"
    /\ pc' = "threw"
    /\ thrown' = "plan"
    /\ UNCHANGED <<restVars, graphVars, schedVars, taskVars, maxConcurrentTasks, maxRetries,
                   plan, schedule, layerIdx, results, summary>>

\* The loop "for (const layer of schedule.executionOrder)" at layer k with the
\* results rs: executeLayer starts the layer's tasks and execute awaits
\* Promise.all; after the last layer the summary, status COMPLETED, return.
EnterLayer(r, tasks, order, rs, k) ==
    /\ layerIdx' = k
    /\ results' = rs
    /\ IF k <= Len(order)
       THEN /\ SetRun(StartLayer([r EXCEPT !.layerResults = <<>>], order[k], 1,
                                 Range(IdsOf(tasks))))
            /\ pc' = "await_layer"
            /\ summary' = summary
       ELSE /\ SetRun(r)
            /\ pc' = "done"
            /\ summary' = CreateExecutionSummary(tasks, rs)

\* The plan arrives: reset the scheduler, add the tasks, build the graph, get the
\* execution plan; a duplicate id or a cycle throws, otherwise status EXECUTING
\* and the first layer is entered.
PlanCreated(tasks) ==
    /\ pc = "planning"
    /\ plan' = tasks
    /\ LET added == AddTasksFromArray(EmptySched, tasks)
           built == BuildGraph(added.s)
           sch == GetExecutionPlan(built.g)
       IN IF added.thrown # "none"
          THEN /\ SetRun([Run EXCEPT !.s = added.s])
               /\ schedule' = schedule
               /\ thrown' = added.thrown
               /\ status' = "failed"
               /\ pc' = "threw"
               /\ UNCHANGED <<layerIdx, results, summary>>
          ELSE /\ schedule' = sch
               /\ IF sch.hasCycle \/ sch.threw
                  THEN /\ SetRun([Run EXCEPT !.s = built])
                       /\ thrown' = IF sch.hasCycle THEN "Circular dependency detected"
                                    ELSE "Unexpected state"
                       /\ status' = "failed"
                       /\ pc' = "threw"
                       /\ UNCHANGED <<layerIdx, results, summary>>
                  ELSE /\ thrown' = "none"
                       /\ status' = IF sch.executionOrder = <<>> THEN "completed"
                                    ELSE "executing"
                       /\ EnterLayer([Run EXCEPT !.s = built], tasks,
                                     sch.executionOrder, <<>>, 1)
    /\ UNCHANGED <<restVars, maxConcurrentTasks, maxRetries>>

LayerTasks == IF pc = "await_layer"
              THEN Range(schedule.executionOrder[layerIdx]) \cap PlanIds
              ELSE {}

\* Variant: the layer is left as soon as one of its tasks has finished.
LayerDone_AnyDone ==
    /\ pc = "await_layer"
    /\ \E t \in LayerTasks : tpc[t] = "done"
    /\ EnterLayer(Run, plan, schedule.executionOrder, results \o layerResults,
                  layerIdx + 1)
    /\ status' = IF layerIdx + 1 > Len(schedule.executionOrder) THEN "completed"
                 ELSE status
    /\ UNCHANGED <<restVars, maxConcurrentTasks, maxRetries, plan, schedule, thrown>>

\* Promise.all of the layer resolves: results.push(...layerResults), then the
\* next layer or the summary
LayerDone ==
    /\ pc = "await_layer"
    /\ \A t \in LayerTasks : tpc[t] = "done"
    /\ EnterLayer(Run, plan, schedule.executionOrder, results \o layerResults,
                  layerIdx + 1)
    /\ status' = IF layerIdx + 1 > Len(schedule.executionOrder) THEN "completed"
                 ELSE status
    /\ UNCHANGED <<restVars, maxConcurrentTasks, maxRetries, plan, schedule, thrown>>

\* Variant: a failing executor call propagates out of execute().
ExecutorReturns_Propagates(t, success) ==
    /\ pc = "await_layer"
    /\ tpc[t] = "executor"
    /\ executingTasks' = executingTasks \ {t}
    /\ lastResult' = [lastResult EXCEPT ![t] = IF success THEN "ok" ELSE "fail"]
    /\ tpc' = [tpc EXCEPT ![t] = IF success THEN "quality" ELSE "done"]
    /\ status' = IF success THEN "validating" ELSE "failed"
    /\ pc' = IF success THEN pc ELSE "threw"
    /\ thrown' = IF success THEN thrown ELSE "executor"
    /\ UNCHANGED <<restVars, graphVars, schedVars, maxConcurrentTasks, maxRetries, plan, schedule,
                   layerIdx, layerResults, results, summary, retryCount,
                   currentTask, qualityReport, execCount>>

\* runAgent.executeTask returns (success) or fails / throws (not success); the
\* finally block leaves executingTasks; status VALIDATING; fullQualityCheck is called
ExecutorReturns(t, success) ==
    /\ pc = "await_layer"
    /\ tpc[t] = "executor"
    /\ executingTasks' = executingTasks \ {t}
    /\ lastResult' = [lastResult EXCEPT ![t] = IF success THEN "ok" ELSE "fail"]
    /\ tpc' = [tpc EXCEPT ![t] = "quality"]
    /\ status' = "validating"
    /\ UNCHANGED <<restVars, graphVars, schedVars, maxConcurrentTasks, maxRetries, plan, schedule,
                   pc, thrown, layerIdx, layerResults, results, summary, retryCount,
                   currentTask, qualityReport, execCount>>

\* the result "Max concurrent tasks reached" reaches executeTaskWithRetry
ExecutorRejected(t) ==
    /\ pc = "await_layer"
    /\ tpc[t] = "rejected"
    /\ lastResult' = [lastResult EXCEPT ![t] = "limit"]
    /\ tpc' = [tpc EXCEPT ![t] = "quality"]
    /\ status' = "validating"
    /\ UNCHANGED <<restVars, graphVars, schedVars, maxConcurrentTasks, maxRetries, plan, schedule,
                   pc, thrown, layerIdx, layerResults, results, summary, retryCount,
                   currentTask, qualityReport, execCount, executingTasks>>

\* fullQualityCheck returns a report with validation.valid: markCompleted
QualityPasses(t) ==
    /\ pc = "await_layer"
    /\ tpc[t] = "quality"
    /\ Validate(lastResult[t] = "ok", TRUE)
    /\ SetRun(FinishCompleted([Run EXCEPT !.qualityReport[t] = "passed"], t))
    /\ UNCHANGED <<restVars, maxConcurrentTasks, maxRetries, plan, schedule, pc, thrown, status,
                   layerIdx, results, summary>>

\* fullQualityCheck returns an invalid report whose repair plan has a
\* repairedTask: status REPAIRING, the repaired task becomes currentTask,
\* markRetrying, retryCount++, and the loop test
QualityRepairs(t) ==
    /\ pc = "await_layer"
    /\ tpc[t] = "quality"
    /\ status' = "repairing"
    /\ SetRun(LoopTest([Run EXCEPT !.qualityReport[t] = "repaired",
                                   !.currentTask[t] = currentTask[t] + 1,
                                   !.s = MarkRetrying(Sched, t),
                                   !.retryCount[t] = retryCount[t] + 1], t))
    /\ UNCHANGED <<restVars, maxConcurrentTasks, maxRetries, plan, schedule, pc, thrown,
                   layerIdx, results, summary>>

\* Variant: the loop goes on although no repaired task was returned.
QualityUnrepairable_Continues(t) ==
    /\ pc = "await_layer"
    /\ tpc[t] = "quality"
    /\ status' = "repairing"
    /\ SetRun(LoopTest([Run EXCEPT !.qualityReport[t] = "unrepairable",
                                   !.retryCount[t] = retryCount[t] + 1], t))
    /\ UNCHANGED <<restVars, maxConcurrentTasks, maxRetries, plan, schedule, pc, thrown,
                   layerIdx, results, summary>>

\* fullQualityCheck returns an invalid report without a repairedTask: status
\* REPAIRING, break
QualityUnrepairable(t) ==
    /\ pc = "await_layer"
    /\ tpc[t] = "quality"
    /\ status' = "repairing"
    /\ SetRun(FinishFailed([Run EXCEPT !.qualityReport[t] = "unrepairable"], t))
    /\ UNCHANGED <<restVars, maxConcurrentTasks, maxRetries, plan, schedule, pc, thrown,
                   layerIdx, results, summary>>

TaskStep(t) ==
    \/ ExecutorReturns(t, TRUE)
    \/ ExecutorReturns(t, FALSE)
    \/ ExecutorRejected(t)
    \/ QualityPasses(t)
    \/ QualityRepairs(t)
    \/ QualityUnrepairable(t)

Next ==
    \/ Execute
    \/ PlanFails
    \/ (pc = "planning" /\ \E tasks \in Plans : PlanCreated(tasks))
    \/ LayerDone
    \/ \E t \in Ids : TaskStep(t)

Spec == Init /\ [][Next]_vars

\* ------------------------------------------------------------------ DAGraph alone
\* The graph driven directly through its public operations, in any order.
RECURSIVE SumLen(_, _)
SumLen(adj, keys) ==
    IF keys = {} THEN 0
    ELSE LET k == CHOOSE x \in keys : TRUE
         IN Len(adj[k]) + SumLen(adj, keys \ {k})

EdgeCount(g) == SumLen(g.adj, DOMAIN g.adj)

nonGraphVars == <<schedVars, runVars, restVars>>

\* In this specification `schedule` and `thrown` hold what the last call returned
\* and threw.
AddNodeCall(id, deps) ==
    /\ LET r == AddNode(TheGraph, [id |-> id, dependencies |-> deps])
       IN SetGraph(r.g) /\ thrown' = r.thrown
    /\ schedule' = NoSchedule
    /\ UNCHANGED nonGraphVars

AddEdgeCall(from, to) ==
    /\ LET r == AddEdge(TheGraph, from, to)
       IN /\ EdgeCount(r.g) <= MaxEdges
          /\ SetGraph(r.g)
          /\ thrown' = r.thrown
    /\ schedule' = NoSchedule
    /\ UNCHANGED nonGraphVars

BuildFromDependenciesCall ==
    /\ LET g == BuildFromDependencies(TheGraph)
       IN /\ EdgeCount(g) <= MaxEdges
          /\ SetGraph(g)
    /\ thrown' = "none"
    /\ schedule' = NoSchedule
    /\ UNCHANGED nonGraphVars

RemoveNodeCall(id) ==
    /\ SetGraph(RemoveNode(TheGraph, id))
    /\ thrown' = "none"
    /\ schedule' = NoSchedule
    /\ UNCHANGED nonGraphVars

GetExecutionPlanCall ==
    /\ schedule' = GetExecutionPlan(TheGraph)
    /\ thrown' = IF schedule'.threw THEN "Unexpected state" ELSE "none"
    /\ UNCHANGED <<graphVars, nonGraphVars>>

DepChoices == {d \in SUBSET (1..MaxDepId) : Cardinality(d) <= MaxDeps}

NextGraph ==
    \/ \E id \in Ids, deps \in DepChoices : AddNodeCall(id, deps)
    \/ \E from, to \in Ids : AddEdgeCall(from, to)
    \/ BuildFromDependenciesCall
    \/ \E id \in Ids : RemoveNodeCall(id)
    \/ GetExecutionPlanCall

InitGraph ==
    /\ maxConcurrent = DefaultMaxConcurrent
    /\ maxConcurrentTasks = DefaultMaxConcurrentTasks
    /\ maxRetries = DefaultMaxRetries
    /\ Constructed

SpecGraph == InitGraph /\ [][NextGraph]_vars

\* ------------------------------------------------------------------ TaskScheduler alone
\* The scheduler set up as execute() sets it up (reset, addTasksFromArray,
\* buildGraph) and then driven through its mark operations and
\* getNextExecutableTasks() in any order.
nonSchedVars == <<runVars, schedule, thrown, queueVars>>

SchedPlans == UNION {{PlanOf(deps) : deps \in [1..n -> SUBSET (1..MaxDepId)]} : n \in 1..MaxTasks}

SchedSetUp(tasks) ==
    /\ plan = <<>>
    /\ plan' = tasks
    /\ SetSched(BuildGraph(AddTasksFromArray(EmptySched, tasks).s))
    /\ returned' = <<>>
    /\ UNCHANGED <<queueVars, schedule, thrown, executingTasks, maxConcurrentTasks, status,
                   maxRetries, pc, layerIdx, layerResults, results, summary, tpc,
                   retryCount, lastResult, currentTask, qualityReport, execCount>>

MarkCompletedCall(id) ==
    /\ plan # <<>>
    /\ SetSched(MarkCompleted(Sched, id))
    /\ UNCHANGED <<nonSchedVars, returned>>

MarkFailedCall(id) ==
    /\ plan # <<>>
    /\ SetSched(MarkFailed(Sched, id))
    /\ UNCHANGED <<nonSchedVars, returned>>

MarkExecutingCall(id) ==
    /\ plan # <<>>
    /\ SetSched(MarkExecuting(Sched, id))
    /\ UNCHANGED <<nonSchedVars, returned>>

MarkRetryingCall(id) ==
    /\ plan # <<>>
    /\ SetSched(MarkRetrying(Sched, id))
    /\ UNCHANGED <<nonSchedVars, returned>>

GetNextExecutableTasksCall ==
    /\ plan # <<>>
    /\ returned' = GetNextExecutableTasks(Sched)
    /\ UNCHANGED <<nonSchedVars, graphVars, schedVars>>

NextSched ==
    \/ (plan = <<>> /\ \E tasks \in SchedPlans : SchedSetUp(tasks))
    \/ \E id \in Ids : MarkCompletedCall(id)
    \/ \E id \in Ids : MarkFailedCall(id)
    \/ \E id \in Ids : MarkExecutingCall(id)
    \/ \E id \in Ids : MarkRetryingCall(id)
    \/ GetNextExecutableTasksCall

SpecSched == InitGraph /\ [][NextSched]_vars

\* ------------------------------------------------------------------ TaskQueue
\* A queue value q holds the fields of the TaskQueue and the state of its tasks.
Q == [queue |-> queue, running |-> running, maxConcurrent |-> maxConcurrent,
      isPaused |-> isPaused, taskCounter |-> taskCounter, qPriority |-> qPriority,
      qTimeout |-> qTimeout, ppc |-> ppc, fnState |-> fnState, raceState |-> raceState,
      timerState |-> timerState, promiseState |-> promiseState,
      settleCalls |-> settleCalls]

SetQ(q) ==
    /\ queue' = q.queue
    /\ running' = q.running
    /\ maxConcurrent' = q.maxConcurrent
    /\ isPaused' = q.isPaused
    /\ taskCounter' = q.taskCounter
    /\ qPriority' = q.qPriority
    /\ qTimeout' = q.qTimeout
    /\ ppc' = q.ppc
    /\ fnState' = q.fnState
    /\ raceState' = q.raceState
    /\ timerState' = q.timerState
    /\ promiseState' = q.promiseState
    /\ settleCalls' = q.settleCalls

\* Variant: the new task goes before the tasks of its own priority.
RECURSIVE FindIndex_BeforeEqual(_, _, _, _)
FindIndex_BeforeEqual(pending, prio, priority, i) ==
    IF i > Len(pending) THEN 0
    ELSE IF prio[pending[i]] <= priority THEN i
         ELSE FindIndex_BeforeEqual(pending, prio, priority, i + 1)

\* this.queue.findIndex((t) => t.priority < priority), 0 for -1
RECURSIVE FindIndex(_, _, _, _)
FindIndex(pending, prio, priority, i) ==
    IF i > Len(pending) THEN 0
    ELSE IF prio[pending[i]] < priority THEN i
         ELSE FindIndex(pending, prio, priority, i + 1)

\* push, or splice(insertIndex, 0, task)
InsertByPriority(pending, prio, t) ==
    LET insertIndex == FindIndex(pending, prio, prio[t], 1)
    IN IF insertIndex = 0 THEN Append(pending, t)
       ELSE SubSeq(pending, 1, insertIndex - 1) \o <<t>>
            \o SubSeq(pending, insertIndex, Len(pending))

\* task.resolve / task.reject: a promise keeps its first outcome
Settle(q, t, outcome) ==
    [q EXCEPT !.promiseState[t] = IF q.promiseState[t] = "pending" THEN outcome
                                  ELSE q.promiseState[t],
              !.settleCalls[t] = q.settleCalls[t] + 1]

\* Variant: the running counter is not compared with maxConcurrent.
ProcessNext_NoLimit(q) ==
    IF q.isPaused \/ q.queue = <<>> THEN q
    ELSE LET t == Head(q.queue)
         IN [q EXCEPT !.queue = Tail(q.queue),
                      !.running = q.running + 1,
                      !.ppc[t] = "awaiting",
                      !.fnState[t] = "running",
                      !.timerState[t] = IF q.qTimeout[t] THEN "armed" ELSE "none"]

\* Variant: a paused queue dispatches all the same.
ProcessNext_IgnoresPause(q) ==
    IF q.running >= q.maxConcurrent \/ q.queue = <<>> THEN q
    ELSE LET t == Head(q.queue)
         IN [q EXCEPT !.queue = Tail(q.queue),
                      !.running = q.running + 1,
                      !.ppc[t] = "awaiting",
                      !.fnState[t] = "running",
                      !.timerState[t] = IF q.qTimeout[t] THEN "armed" ELSE "none"]

\* processNext() up to "await this.executeWithTimeout(task)": the head of the
\* queue is shifted, running++, the task function is called and, with a timeout
\* set, the timer armed
ProcessNext(q) ==
    IF q.isPaused \/ q.running >= q.maxConcurrent \/ q.queue = <<>> THEN q
    ELSE LET t == Head(q.queue)
         IN [q EXCEPT !.queue = Tail(q.queue),
                      !.running = q.running + 1,
                      !.ppc[t] = "awaiting",
                      !.fnState[t] = "running",
                      !.timerState[t] = IF q.qTimeout[t] THEN "armed" ELSE "none"]

\* n calls of processNext() in a row
RECURSIVE ProcessNextTimes(_, _)
ProcessNextTimes(q, n) ==
    IF n <= 0 THEN q ELSE ProcessNextTimes(ProcessNext(q), n - 1)

\* resume()
ResumeQueue(q) == ProcessNextTimes([q EXCEPT !.isPaused = FALSE], q.maxConcurrent)

\* Variant: the pending list is emptied, its promises left pending.
ClearQueue_NoReject(q) == [q EXCEPT !.queue = <<>>]

\* clear(): every pending task is rejected, the queue emptied
RECURSIVE RejectAll(_, _, _)
RejectAll(q, pending, i) ==
    IF i > Len(pending) THEN q
    ELSE RejectAll([Settle(q, pending[i], "cleared") EXCEPT !.ppc[pending[i]] = "cleared"],
                   pending, i + 1)

ClearQueue(q) == [RejectAll(q, q.queue, 1) EXCEPT !.queue = <<>>]

\* setMaxConcurrent(max)
\* Variant: the new limit is stored and nothing is dispatched.
SetMaxConcurrentTo_StoreOnly(q, max) == [q EXCEPT !.maxConcurrent = max]

SetMaxConcurrentTo(q, max) ==
    LET set == [q EXCEPT !.maxConcurrent = max]
    IN IF ~q.isPaused THEN ProcessNextTimes(set, max - q.running) ELSE set

\* Variant: drain() looks at the running counter only.
DrainTest_IgnoresPending == IF running > 0 THEN "waiting" ELSE "resolved"

\* the test of drain()'s while loop
DrainTest == IF running > 0 \/ Len(queue) > 0 THEN "waiting" ELSE "resolved"

nonQueueVars == <<graphVars, schedVars, runVars, schedule, thrown, returned>>

\* add(fn, {priority, timeout})
Add(priority, hasTimeout) ==
    /\ taskCounter < MaxQueueTasks
    /\ LET t == taskCounter + 1
           prio == [qPriority EXCEPT ![t] = priority]
       IN SetQ(ProcessNext([Q EXCEPT !.taskCounter = t,
                                     !.qPriority = prio,
                                     !.qTimeout[t] = hasTimeout,
                                     !.ppc[t] = "pending",
                                     !.queue = InsertByPriority(queue, prio, t)]))
    /\ UNCHANGED <<nonQueueVars, drainPc>>

\* Variant: the function's outcome is delivered even after the timer rejected.
FnSettles_AfterTimeout(t, outcome) ==
    /\ fnState[t] = "running"
    /\ fnState' = [fnState EXCEPT ![t] = outcome]
    /\ raceState' = [raceState EXCEPT ![t] = outcome]
    /\ timerState' = [timerState EXCEPT ![t] =
                         IF timerState[t] = "armed" THEN "cleared" ELSE timerState[t]]
    /\ ppc' = [ppc EXCEPT ![t] = "settled"]
    /\ UNCHANGED <<nonQueueVars, queue, running, maxConcurrent, isPaused, taskCounter,
                   qPriority, qTimeout, promiseState, settleCalls, drainPc>>

\* the task function settles; executeWithTimeout's promise follows it unless the
\* timer has rejected it already
FnSettles(t, outcome) ==
    /\ fnState[t] = "running"
    /\ fnState' = [fnState EXCEPT ![t] = outcome]
    /\ IF raceState[t] = "pending"
       THEN /\ raceState' = [raceState EXCEPT ![t] = outcome]
            /\ timerState' = [timerState EXCEPT ![t] =
                                 IF timerState[t] = "armed" THEN "cleared" ELSE timerState[t]]
            /\ ppc' = [ppc EXCEPT ![t] = "settled"]
       ELSE UNCHANGED <<raceState, timerState, ppc>>
    /\ UNCHANGED <<nonQueueVars, queue, running, maxConcurrent, isPaused, taskCounter,
                   qPriority, qTimeout, promiseState, settleCalls, drainPc>>

\* the timer of executeWithTimeout fires before the task function settled
TimerFires(t) ==
    /\ timerState[t] = "armed"
    /\ timerState' = [timerState EXCEPT ![t] = "fired"]
    /\ raceState' = [raceState EXCEPT ![t] = "timeout"]
    /\ ppc' = [ppc EXCEPT ![t] = "settled"]
    /\ UNCHANGED <<nonQueueVars, queue, running, maxConcurrent, isPaused, taskCounter,
                   qPriority, qTimeout, fnState, promiseState, settleCalls, drainPc>>

\* Variant: only a task that resolved gives its slot back and dispatches the next.
Continue_KeepsSlotOnError(t) ==
    /\ ppc[t] = "settled"
    /\ LET settled == [Settle(Q, t, raceState[t]) EXCEPT !.ppc[t] = "done"]
       IN IF raceState[t] = "resolved"
          THEN SetQ(ProcessNext([settled EXCEPT !.running = running - 1]))
          ELSE SetQ(settled)
    /\ UNCHANGED <<nonQueueVars, drainPc>>

\* processNext() after its await: task.resolve or task.reject, then the finally
\* block: running--, processNext()
Continue(t) ==
    /\ ppc[t] = "settled"
    /\ LET settled == Settle(Q, t, raceState[t])
       IN SetQ(ProcessNext([settled EXCEPT !.ppc[t] = "done",
                                           !.running = running - 1]))
    /\ UNCHANGED <<nonQueueVars, drainPc>>

Pause ==
    /\ ~isPaused
    /\ isPaused' = TRUE
    /\ UNCHANGED <<nonQueueVars, queue, running, maxConcurrent, taskCounter, qPriority,
                   qTimeout, ppc, fnState, raceState, timerState, promiseState,
                   settleCalls, drainPc>>

Resume ==
    /\ SetQ(ResumeQueue(Q))
    /\ UNCHANGED <<nonQueueVars, drainPc>>

Clear ==
    /\ SetQ(ClearQueue(Q))
    /\ UNCHANGED <<nonQueueVars, drainPc>>

SetMaxConcurrent(max) ==
    /\ SetQ(SetMaxConcurrentTo(Q, max))
    /\ UNCHANGED <<nonQueueVars, drainPc>>

\* drain() is called: the first test of its loop
Drain ==
    /\ drainPc = "idle"
    /\ drainPc' = DrainTest
    /\ UNCHANGED <<nonQueueVars, queue, running, maxConcurrent, isPaused, taskCounter,
                   qPriority, qTimeout, ppc, fnState, raceState, timerState,
                   promiseState, settleCalls>>

\* the 50 ms timer of drain() fires: the next test of its loop
DrainPoll ==
    /\ drainPc = "waiting"
    /\ drainPc' = DrainTest
    /\ UNCHANGED <<nonQueueVars, queue, running, maxConcurrent, isPaused, taskCounter,
                   qPriority, qTimeout, ppc, fnState, raceState, timerState,
                   promiseState, settleCalls>>

NextQueue ==
    \/ \E priority \in 0..MaxPriority, hasTimeout \in BOOLEAN : Add(priority, hasTimeout)
    \/ \E t \in QIds : FnSettles(t, "resolved")
    \/ \E t \in QIds : FnSettles(t, "rejected")
    \/ \E t \in QIds : TimerFires(t)
    \/ \E t \in QIds : Continue(t)
    \/ Pause
    \/ Resume
    \/ Clear
    \/ \E max \in 1..MaxConcurrentBound : SetMaxConcurrent(max)
    \/ Drain
    \/ DrainPoll

InitQueue ==
    /\ maxConcurrent \in 1..MaxConcurrentBound
    /\ maxConcurrentTasks = DefaultMaxConcurrentTasks
    /\ maxRetries = DefaultMaxRetries
    /\ Constructed

\* drain()'s timer fires as long as drain() waits
SpecQueue == InitQueue /\ [][NextQueue]_vars /\ WF_vars(DrainPoll)

\* The queue with its scheduling: a settled race continues in processNext (a
\* microtask), an armed timer fires unless cleared, a task function without a
\* timeout settles, a paused queue is resumed, drain()'s timer polls.  At most
\* MaxLiveTasks tasks are added.
QueueFairness ==
    /\ WF_vars(DrainPoll)
    /\ WF_vars(Resume)
    /\ WF_vars(\E t \in QIds : Continue(t))
    /\ WF_vars(\E t \in QIds : TimerFires(t))
    /\ WF_vars(\E t \in QIds :
                  ~qTimeout[t] /\ (FnSettles(t, "resolved") \/ FnSettles(t, "rejected")))

NextQueueLive ==
    \/ (taskCounter < MaxLiveTasks
          /\ \E priority \in 0..MaxPriority, hasTimeout \in BOOLEAN : Add(priority, hasTimeout))
    \/ \E t \in QIds : FnSettles(t, "resolved")
    \/ \E t \in QIds : FnSettles(t, "rejected")
    \/ \E t \in QIds : TimerFires(t)
    \/ \E t \in QIds : Continue(t)
    \/ Pause
    \/ Resume
    \/ Clear
    \/ \E max \in 1..MaxConcurrentBound : SetMaxConcurrent(max)
    \/ Drain
    \/ DrainPoll

SpecQueueLive == InitQueue /\ [][NextQueueLive]_vars /\ QueueFairness

\* ------------------------------------------------------------------ reference notions
\* Directed reachability, written without the code's traversal.
RECURSIVE ReachFrom(_, _)
ReachFrom(E, S) ==
    LET T == S \cup {e[2] : e \in {x \in E : x[1] \in S}}
    IN IF T = S THEN S ELSE ReachFrom(E, T)

Succ(E, n) == {e[2] : e \in {x \in E : x[1] = n}}

OnCycle(E, n) == n \in ReachFrom(E, Succ(E, n))

HasDirectedCycle(E, V) == \E n \in V : OnCycle(E, n)

GraphEdges == UNION {{<<a, b>> : b \in Range(adjacencyList[a])} : a \in DOMAIN adjacencyList}

\* the dependency edges of the plan: d -> t for every declared dependency d of t
\* that is the id of a task of the plan
PlanEdges == UNION {{<<d, plan[i].id>> : d \in plan[i].dependencies \cap PlanIds}
                    : i \in DOMAIN plan}

PlanCyclic == HasDirectedCycle(PlanEdges, PlanIds)

PlanDeps(t) == UNION {plan[i].dependencies : i \in {j \in DOMAIN plan : plan[j].id = t}}

\* tasks t depends on, directly or transitively
Ancestors(t) == {a \in PlanIds : t \in ReachFrom(PlanEdges, Succ(PlanEdges, a))}

RECURSIVE Flatten(_)
Flatten(layers) == IF layers = <<>> THEN <<>> ELSE Head(layers) \o Flatten(Tail(layers))

LayerIndex(layers, n) == CHOOSE i \in DOMAIN layers : Contains(layers[i], n)

InExecutor(t) == tpc[t] \in {"executor", "rejected"}

\* ------------------------------------------------------------------ claims

\* C1: a task is handed to runAgent.executeTask only when every declared
\* dependency that is a task of the plan is in state Completed.
C1_DependenciesCompletedBeforeExecution ==
    \A t \in PlanIds :
        InExecutor(t) =>
            \A d \in PlanDeps(t) \cap PlanIds : taskStatus[d] = "completed"

\* C1 divergence: a task is in the executor while a task it depends on is Failed
C1_FailedDependencyExecuted ==
    \E t \in PlanIds :
        /\ tpc[t] = "executor"
        /\ \E d \in PlanDeps(t) \cap PlanIds : taskStatus[d] = "failed" /\ d \in markedFailed

\* C2: on an acyclic graph topologicalSort() returns layers that hold every node
\* exactly once, and every edge (a, b) has a in a strictly earlier layer than b.
C2_TopologicalSortLayers ==
    ~HasDirectedCycle(GraphEdges, NodeSet) =>
        LET sorted == TopologicalSort(NodeKeys, adjacencyList, inDegree)
            flat == Flatten(sorted.layers)
        IN /\ ~sorted.threw
           /\ Len(flat) = Cardinality(NodeSet)
           /\ Range(flat) = NodeSet
           /\ \A e \in GraphEdges :
                 LayerIndex(sorted.layers, e[1]) < LayerIndex(sorted.layers, e[2])

\* C2 witness: getExecutionPlan() has returned two layers, the first of two nodes
C2_Witness ==
    /\ Len(schedule.executionOrder) = 2
    /\ Len(schedule.executionOrder[1]) = 2
    /\ schedule.executionOrder = TopologicalSort(NodeKeys, adjacencyList, inDegree).layers
    /\ GraphEdges # {}

\* C3: hasCycle() is true exactly when the graph has a directed cycle, and then
\* getExecutionPlan() returns hasCycle = true and no layers, without throwing.
C3_HasCycleExact ==
    /\ HasCycle(NodeKeys, adjacencyList) = HasDirectedCycle(GraphEdges, NodeSet)
    /\ HasDirectedCycle(GraphEdges, NodeSet) =>
          LET p == GetExecutionPlan(TheGraph)
          IN p.hasCycle /\ p.executionOrder = <<>> /\ ~p.threw
    /\ schedule.hasCycle =>
          /\ HasDirectedCycle(GraphEdges, NodeSet)
          /\ schedule.executionOrder = <<>>
          /\ thrown = "none"

\* C3 witness: getExecutionPlan() reported a cycle that the first node visited
\* does not reach
C3_Witness ==
    /\ schedule.hasCycle
    /\ Len(NodeKeys) = 3
    /\ adjacencyList[NodeKeys[1]] = <<>>

\* C4: with a cyclic plan execute() throws the circular-dependency error naming
\* nodes of a cycle, and no task is marked Executing or handed to the executor.
C4_CycleAbortsBeforeExecution ==
    (pc \notin {"idle", "planning"} /\ PlanCyclic) =>
        /\ pc = "threw"
        /\ status = "failed"
        /\ thrown = "Circular dependency detected"
        /\ schedule.hasCycle
        /\ schedule.cycleNodes # <<>>
        /\ \A n \in Range(schedule.cycleNodes) : n \in PlanIds /\ OnCycle(PlanEdges, n)
        /\ \A t \in PlanIds :
              execCount[t] = 0 /\ tpc[t] = "wait" /\ taskStatus[t] = "pending"
        /\ executingTasks = {}

\* C4 witness: a run refused for a cycle through two tasks
C4_Witness ==
    /\ pc = "threw"
    /\ thrown = "Circular dependency detected"
    /\ Len(schedule.cycleNodes) = 2

\* C5: the executor is invoked at most maxRetries + 1 times per task, and a
\* task that ended without ever validating is Failed by then.
C5_AtMostMaxRetriesPlusOneAttempts ==
    \A t \in PlanIds :
        /\ execCount[t] <= maxRetries + 1
        /\ (tpc[t] = "done" /\ t \notin completedTasks) =>
              /\ taskStatus[t] = "failed"
              /\ t \in failedTasks
              /\ execCount[t] <= maxRetries + 1

\* C5 witness: a task failed after using every attempt
C5_Witness ==
    \E t \in PlanIds :
        /\ maxRetries >= 1
        /\ execCount[t] = maxRetries + 1
        /\ qualityReport[t] = "repaired"
        /\ tpc[t] = "done"
        /\ taskStatus[t] = "failed"

\* C6: a task repaired k <= maxRetries times gets its attempt k + 1, and a task
\* validating on that attempt ends Completed after exactly k + 1 executor
\* invocations and was never marked Failed.  k is currentTask[t], the number of
\* repaired tasks accepted.
C6_RepairedTaskCompletes ==
    \A t \in PlanIds :
        /\ (tpc[t] # "wait" /\ currentTask[t] <= maxRetries) =>
              execCount[t] = currentTask[t] + 1
        /\ t \in completedTasks =>
              /\ tpc[t] = "done"
              /\ taskStatus[t] = "completed"
              /\ t \notin markedFailed
              /\ currentTask[t] <= maxRetries
              /\ execCount[t] = currentTask[t] + 1

\* C6 witness: every attempt but the last permitted one failed validation and
\* was repaired, and the last attempt validates
C6_Witness ==
    \E t \in PlanIds :
        /\ t \in completedTasks
        /\ maxRetries >= 1
        /\ currentTask[t] = maxRetries
        /\ execCount[t] = maxRetries + 1
        /\ Contains(results \o layerResults, Result(t, TRUE))

\* C7: when the quality check reports the task unrepairable the loop stops at
\* once: the task is Failed and the executor is not invoked again for it.
C7_UnrepairableFailsAtOnce ==
    /\ [](\A t \in PlanIds :
            qualityReport[t] = "unrepairable" =>
                /\ tpc[t] = "done"
                /\ taskStatus[t] = "failed"
                /\ t \in failedTasks
                /\ execCount[t] = retryCount[t] + 1)
    /\ [][\A t \in PlanIds :
            qualityReport[t] = "unrepairable" =>
                /\ qualityReport'[t] = "unrepairable"
                /\ execCount'[t] = execCount[t]]_vars

\* C7 witness: unrepairable on the first attempt with the whole retry budget left
C7_Witness ==
    \E t \in PlanIds :
        /\ qualityReport[t] = "unrepairable"
        /\ retryCount[t] = 0
        /\ maxRetries >= 1
        /\ execCount[t] = 1
        /\ taskStatus[t] = "failed"

\* C8: the summary has success = true exactly when no task was marked Failed,
\* and its failedTasks is the number of tasks marked Failed.
C8_SummaryCountsFailedTasks ==
    pc = "done" =>
        /\ summary.success = (markedFailed = {})
        /\ summary.failedTasks = Cardinality(markedFailed)

\* C8 divergence: the summary reports success although a task was marked Failed
\* (its last execution succeeded and validation rejected it)
C8_SuccessDespiteFailedTask ==
    /\ pc = "done"
    /\ summary.success
    /\ summary.failedTasks = 0
    /\ markedFailed # {}
    /\ \E t \in markedFailed : taskStatus[t] = "failed" /\ lastResult[t] = "ok"

PcRank == CASE pc = "idle" -> 0 [] pc = "planning" -> 1 [] pc = "await_layer" -> 2
            [] OTHER -> 3

TaskRank(t) == 3 * execCount[t]
               + (CASE tpc[t] = "quality" -> 1 [] tpc[t] = "done" -> 2 [] OTHER -> 0)

RECURSIVE SumRank(_)
SumRank(S) == IF S = {} THEN 0
              ELSE LET t == CHOOSE x \in S : TRUE IN TaskRank(t) + SumRank(S \ {t})

Measure == PcRank + 2 * layerIdx + SumRank(Ids)

MeasureBound == 4 + 2 * (MaxTasks + 1) + MaxTasks * (3 * (maxRetries + 1) + 2)

\* C10: with an acyclic plan execute() terminates with a summary and does not
\* throw: every step increases a bounded measure, the run is never stuck before
\* its end, it throws only when the planner failed or the plan is cyclic, and a
\* failed or throwing executor call only yields a failed result.
C10_ExecuteTerminatesWithSummary ==
    /\ [](Measure <= MeasureBound)
    /\ [][Measure' > Measure]_vars
    /\ [](pc \notin {"done", "threw"} => ENABLED Next)
    /\ [](pc = "threw" => (thrown = "plan" \/ PlanCyclic))
    /\ [](pc = "done" =>
            /\ ~PlanCyclic
            /\ summary = CreateExecutionSummary(plan, results)
            /\ summary.totalTasks = Len(plan))
    /\ [](\A t \in PlanIds : lastResult[t] = "fail" => pc \in {"await_layer", "done"})

\* C10 witness: a summary returned although an executor call failed
C10_Witness ==
    /\ pc = "done"
    /\ Len(plan) = 3
    /\ \E t \in PlanIds : lastResult[t] = "fail"
    /\ Len(summary.results) = 3

\* C11: a task with a dependency (a task of the set) that was marked Failed and
\* never Completed is not returned by getNextExecutableTasks(), neither by a call
\* now nor by any call made so far.
C11_FailedDependencyBlocks ==
    \A t \in PlanIds :
        \A d \in PlanDeps(t) \cap PlanIds :
            (d \in markedFailed /\ d \notin completedTasks) =>
                /\ ~Contains(GetNextExecutableTasks(Sched), t)
                /\ ~Contains(returned, t)

\* C11 witness: getNextExecutableTasks() returned tasks while a pending task was
\* held back by a dependency that failed and was then marked retrying
C11_Witness ==
    \E t, d \in PlanIds :
        /\ d # t
        /\ d \in PlanDeps(t)
        /\ d \in markedFailed /\ d \notin failedTasks /\ d \notin completedTasks
        /\ taskStatus[t] = "pending"
        /\ returned # <<>>
        /\ returned = GetNextExecutableTasks(Sched)

\* C12: after markRetrying(id) on a task with in-degree zero the task is out of
\* the failed set and getNextExecutableTasks() returns it.
C12_RetryingTaskReturnedAgain ==
    \A t \in PlanIds :
        (taskStatus[t] = "retrying" /\ HasNode(TheGraph, t) /\ inDegree[t] = 0) =>
            /\ t \notin failedTasks
            /\ Contains(GetNextExecutableTasks(Sched), t)

\* C12 divergence: a task marked Failed and then Retrying, with in-degree zero,
\* is missing from what getNextExecutableTasks() just returned
C12_RetryingTaskNotReturned ==
    \E t \in PlanIds :
        /\ taskStatus[t] = "retrying"
        /\ t \in markedFailed /\ t \notin failedTasks /\ t \notin completedTasks
        /\ HasNode(TheGraph, t) /\ inDegree[t] = 0
        /\ returned = GetNextExecutableTasks(Sched)
        /\ ~Contains(returned, t)

\* C13: markCompleted(id) removes id, lowers the in-degree of every direct
\* successor of id by exactly one, never below zero, and leaves the in-degree of
\* every other remaining node as it was.
C13_MarkCompletedDecrementsSuccessors ==
    \A id \in Ids :
        LET after == MarkCompleted(Sched, id).g
            successors == IF HasNode(TheGraph, id)
                          THEN Range(Neighbors(adjacencyList, id)) ELSE {}
            remaining == Range(IdsOf(after.nodes))
        IN /\ remaining = NodeSet \ {id}
           /\ DOMAIN after.deg = remaining
           /\ \A n \in remaining :
                 /\ after.deg[n] = inDegree[n] - (IF n \in successors THEN 1 ELSE 0)
                 /\ after.deg[n] >= 0

\* C13 witness: of the two dependencies of a task one was marked Completed, the
\* other was marked Failed: the in-degree went from two to one
C13_Witness ==
    \E t, d, e \in PlanIds :
        /\ d # t /\ e # t /\ d # e
        /\ PlanDeps(t) = {d, e}
        /\ d \in completedTasks
        /\ e \in failedTasks /\ e \notin completedTasks
        /\ HasNode(TheGraph, t) /\ inDegree[t] = 1

\* C14: addEdge(from, to) called a second time changes nothing: the adjacency
\* sets, every in-degree and the error thrown are as after the first call.
C14_AddEdgeIdempotent ==
    \A from, to \in Ids :
        LET once == AddEdge(TheGraph, from, to)
            twice == AddEdge(once.g, from, to)
        IN /\ twice.g = once.g
           /\ twice.thrown = once.thrown
           /\ (HasNode(TheGraph, from) /\ HasNode(TheGraph, to)) =>
                 /\ Contains(once.g.adj[from], to)
                 /\ once.thrown = "none"

\* C14 witness: an edge added by addEdge between two different nodes, its target
\* with in-degree one, and the graph at the edge bound so that only repeated
\* calls are possible
C14_Witness ==
    /\ thrown = "none"
    /\ EdgeCount(TheGraph) = MaxEdges
    /\ \E from, to \in NodeSet :
          /\ from # to
          /\ Contains(adjacencyList[from], to)
          /\ inDegree[to] = 1
          /\ AddEdge(TheGraph, from, to).g = TheGraph

\* task functions started and not yet finished
ActiveFns == {t \in QIds : fnState[t] = "running"}

\* tasks dispatched by the step
Dispatched == {t \in QIds : ppc[t] = "pending" /\ ppc'[t] = "awaiting"}

QueueIdle == running = 0 /\ queue = <<>>

\* C15: the running counter starts within maxConcurrent, and no step that does
\* not lower maxConcurrent takes it beyond; it is the number of dispatched tasks
\* whose processNext has not finished.
C15_RunningBoundedByMaxConcurrent ==
    /\ running <= maxConcurrent
    /\ [](running = Cardinality({t \in QIds : ppc[t] \in {"awaiting", "settled"}}))
    /\ [][(maxConcurrent' >= maxConcurrent /\ running <= maxConcurrent)
              => running' <= maxConcurrent']_vars

\* C15 witness: every slot taken, a task waiting, after a task timed out
C15_Witness ==
    /\ running = maxConcurrent
    /\ queue # <<>>
    /\ ~isPaused
    /\ \E t \in QIds : promiseState[t] = "timeout"

\* C16: whenever the running counter is within maxConcurrent (maxConcurrent was
\* not lowered below it), at most maxConcurrent task functions are started and
\* not yet finished.
C16_StartedFunctionsBounded ==
    running <= maxConcurrent => Cardinality(ActiveFns) <= maxConcurrent

\* C16 divergence: more task functions are running than the largest limit
\* allows, one of them belonging to a task that timed out
C16_MoreFunctionsThanSlots ==
    /\ maxConcurrent = MaxConcurrentBound
    /\ running <= maxConcurrent
    /\ Cardinality(ActiveFns) > maxConcurrent
    /\ \E t \in ActiveFns : promiseState[t] = "timeout"

\* C17: the pending list is in descending priority and, within a priority, in
\* arrival order; a task is dispatched only when every task left pending has a
\* lower priority, or the same priority and a later arrival.
C17_DispatchByPriorityThenArrival ==
    /\ [](\A i, j \in DOMAIN queue :
            i < j => \/ qPriority[queue[i]] > qPriority[queue[j]]
                     \/ (qPriority[queue[i]] = qPriority[queue[j]] /\ queue[i] < queue[j]))
    /\ [][\A t \in Dispatched :
            /\ t \in Range(queue) \cup {taskCounter'}
            /\ \A u \in Range(queue') :
                  \/ qPriority'[u] < qPriority'[t]
                  \/ (qPriority'[u] = qPriority'[t] /\ u > t)]_vars

\* C17 witness: a task of higher priority runs while a task added before it waits,
\* and a task of its own priority added after it waits too
C17_Witness ==
    \E t, u, w \in QIds :
        /\ ppc[t] = "awaiting" /\ ppc[u] = "pending" /\ ppc[w] = "pending"
        /\ u < t /\ t < w
        /\ qPriority[t] > qPriority[u]
        /\ qPriority[w] = qPriority[t]

\* C18: a task whose timer fired is rejected with the timeout error; its function
\* is not cancelled and may still finish; an outcome delivered never changes;
\* resolve/reject is called at most once per task; and a delivered outcome is the
\* function's own result, the timeout, or the clearing of the queue.
C18_TimeoutRejectsOnce ==
    /\ [](\A t \in QIds :
            /\ settleCalls[t] <= 1
            /\ (ppc[t] = "done" /\ timerState[t] = "fired") => promiseState[t] = "timeout"
            /\ promiseState[t] = "timeout" => (qTimeout[t] /\ timerState[t] = "fired")
            /\ promiseState[t] \in {"resolved", "rejected"} => fnState[t] = promiseState[t]
            /\ promiseState[t] = "cleared" => fnState[t] = "idle"
            /\ (timerState[t] = "fired" /\ fnState[t] = "running")
                  => ENABLED FnSettles(t, "resolved"))
    /\ [][\A t \in QIds :
            /\ promiseState[t] # "pending" => promiseState'[t] = promiseState[t]
            /\ (timerState[t] = "armed" /\ timerState'[t] = "fired")
                  => (fnState[t] = "running" /\ fnState'[t] = "running")]_vars

\* C18 witness: a task was rejected for its timeout and its function finished
\* afterwards
C18_Witness ==
    \E t \in QIds :
        /\ promiseState[t] = "timeout"
        /\ fnState[t] = "resolved"
        /\ ppc[t] = "done"
        /\ settleCalls[t] = 1

\* C19: a step that leaves the queue paused dispatches nothing; the running tasks of a
\* paused queue can settle and finish; and resume() dispatches the head of the
\* pending list until it is empty or maxConcurrent tasks run.
C19_PauseStopsDispatch ==
    /\ [](isPaused =>
            \A t \in QIds :
               /\ ppc[t] = "awaiting" =>
                     ENABLED FnSettles(t, "resolved") /\ ENABLED FnSettles(t, "rejected")
               /\ ppc[t] = "settled" => ENABLED Continue(t))
    /\ [][isPaused' => Dispatched = {}]_vars
    /\ [][(isPaused /\ ~isPaused') =>
            /\ queue' = <<>> \/ running' >= maxConcurrent'
            /\ running' - running = Len(queue) - Len(queue')
            /\ queue' = SubSeq(queue, Len(queue) - Len(queue') + 1, Len(queue))
            /\ \A t \in QIds : ppc[t] = "pending" =>
                  ppc'[t] = (IF t \in Range(queue') THEN "pending" ELSE "awaiting")]_vars

\* C19 witness: a paused queue with every slot free and two tasks pending, after
\* a running task finished
C19_Witness ==
    /\ isPaused
    /\ running = 0
    /\ Len(queue) >= 2
    /\ \E t \in QIds : ppc[t] = "done"

\* C20: drain() resolves only at a test that finds running = 0 and the pending
\* list empty, and a waiting drain() resolves once the queue stays that way.
C20_DrainWaitsForIdle ==
    /\ [][(drainPc # "resolved" /\ drainPc' = "resolved") =>
            (QueueIdle /\ running' = 0 /\ queue' = <<>>)]_vars
    /\ ((drainPc = "waiting" /\ QueueIdle) ~> (drainPc = "resolved" \/ ~QueueIdle))

\* C20 witness: a drain() that had to wait finds the queue idle at last
C20_Witness ==
    /\ drainPc = "waiting"
    /\ QueueIdle
    /\ \A t \in QIds : ppc[t] \in {"done", "cleared"}

\* C21: clear() rejects the promise of every pending task with the cleared error
\* and empties the pending list, leaves the running counter and every task that
\* is not pending as they were, and a task rejected by clear() is never started.
C21_ClearRejectsPending ==
    /\ [][Clear =>
            /\ queue' = <<>>
            /\ running' = running
            /\ \A t \in QIds :
                  IF ppc[t] = "pending"
                  THEN /\ t \in Range(queue)
                       /\ ppc'[t] = "cleared"
                       /\ promiseState'[t] = "cleared"
                       /\ settleCalls'[t] = 1
                       /\ fnState'[t] = "idle"
                  ELSE /\ ppc'[t] = ppc[t]
                       /\ promiseState'[t] = promiseState[t]
                       /\ settleCalls'[t] = settleCalls[t]
                       /\ fnState'[t] = fnState[t]
                       /\ raceState'[t] = raceState[t]
                       /\ timerState'[t] = timerState[t]]_vars
    /\ [](\A t \in QIds :
            ppc[t] = "cleared" =>
               /\ fnState[t] = "idle"
               /\ promiseState[t] = "cleared"
               /\ t \notin Range(queue))

\* C21 witness: two pending tasks were cleared while a third keeps running
C21_Witness ==
    /\ running = 1
    /\ queue = <<>>
    /\ \E t, u, w \in QIds :
          /\ t # u
          /\ ppc[t] = "cleared" /\ ppc[u] = "cleared"
          /\ ppc[w] = "awaiting" /\ fnState[w] = "running"

\* the index of the layer of the execution order that holds task t, 0 if none
LayerOf(t) ==
    IF \E i \in DOMAIN schedule.executionOrder : Contains(schedule.executionOrder[i], t)
    THEN LayerIndex(schedule.executionOrder, t)
    ELSE 0

\* C22: the tasks inside RunAgent.executeTask past its concurrency check are the
\* tasks of executingTasks, all of the layer being awaited, and they are never
\* more than maxConcurrentTasks.
C22_LayerConcurrencyBounded ==
    /\ Cardinality(executingTasks) <= maxConcurrentTasks
    /\ executingTasks = {t \in Ids : tpc[t] = "executor"}
    /\ executingTasks \subseteq LayerTasks

\* C22 witness: a layer of more tasks than the limit, the limit reached
C22_Witness ==
    /\ pc = "await_layer"
    /\ Cardinality(LayerTasks) > maxConcurrentTasks
    /\ Cardinality(executingTasks) = maxConcurrentTasks
    /\ \E t \in LayerTasks : tpc[t] = "rejected"

\* C23: no call of RunAgent.executeTask is answered with the failed result
\* "Max concurrent tasks reached", and no task ends with that result.
C23_ExcessTasksWait ==
    \A t \in Ids : tpc[t] # "rejected" /\ lastResult[t] # "limit"

\* C23 divergence: the run ended, and a task was marked Failed and counted as
\* failed with "Max concurrent tasks reached" as the result of its only call of
\* the executor
C23_FailedForLimit ==
    /\ pc = "done"
    /\ summary.failedTasks >= 1
    /\ \E t \in PlanIds :
          /\ t \in markedFailed
          /\ taskStatus[t] = "failed"
          /\ lastResult[t] = "limit"
          /\ execCount[t] = 1
          /\ \E i \in DOMAIN summary.results :
                summary.results[i] = Result(t, FALSE)

\* C24: a task that has been handed to the executor belongs to the layer being
\* awaited or to an earlier one, and while a task has been handed to the executor
\* every task of an earlier layer has ended its retry loop, marked Completed or
\* Failed.
C24_LayerBarrier ==
    \A t \in PlanIds :
        execCount[t] > 0 =>
            /\ LayerOf(t) \in 1..layerIdx
            /\ \A u \in PlanIds :
                  (LayerOf(u) < LayerOf(t)) =>
                      /\ tpc[u] = "done"
                      /\ u \in completedTasks \cup markedFailed
                      /\ u \notin executingTasks

\* C24 witness: a task of the second layer is in the executor after a first layer
\* of two tasks, one completed and one failed
C24_Witness ==
    /\ pc = "await_layer"
    /\ layerIdx = 2
    /\ Len(schedule.executionOrder[1]) = 2
    /\ \E t \in LayerTasks : tpc[t] = "executor"
    /\ \E u, w \in Range(schedule.executionOrder[1]) :
          u \in completedTasks /\ w \in markedFailed

\* C25: addNode of an id that is a node throws and returns the graph as it was,
\* and so does addTasksFromArray (addTasks, addTask) of a task with that id;
\* addNode of a new id does not throw; a call that threw the duplicate error left
\* nodes, adjacency sets and in-degrees unchanged.
C25_AddNodeDuplicateFails ==
    /\ [](\A id \in Ids, deps \in DepChoices :
            LET node == [id |-> id, dependencies |-> deps]
                r == AddNode(TheGraph, node)
            IN IF id \in NodeSet
               THEN /\ r = [g |-> TheGraph, thrown |-> "node already exists"]
                    /\ AddTasksFromArray(Sched, <<node>>)
                          = [s |-> Sched, thrown |-> "node already exists"]
               ELSE /\ r.thrown = "none"
                    /\ HasNode(r.g, id)
                    /\ r.g.adj[id] = <<>> /\ r.g.deg[id] = 0)
    /\ [][thrown' = "node already exists" => UNCHANGED graphVars]_vars

\* C25 witness: a duplicate addNode threw on a graph of two nodes that each have
\* a successor and in-degree 1
C25_Witness ==
    /\ thrown = "node already exists"
    /\ Len(NodeKeys) = 2
    /\ \A n \in NodeSet : adjacencyList[n] # <<>> /\ inDegree[n] = 1

\* C26: addEdge(from, to) throws when from or to is no node and returns the graph
\* as it was, does not throw when both are nodes; a call that threw left nodes,
\* adjacency sets and in-degrees unchanged.
C26_AddEdgeUnknownEndpointFails ==
    /\ [](\A from, to \in Ids :
            LET r == AddEdge(TheGraph, from, to)
            IN IF from \in NodeSet /\ to \in NodeSet
               THEN r.thrown = "none"
               ELSE /\ r.g = TheGraph
                    /\ r.thrown = (IF from \notin NodeSet THEN "source node does not exist"
                                   ELSE "target node does not exist"))
    /\ [][thrown' \in {"source node does not exist", "target node does not exist"}
            => UNCHANGED graphVars]_vars
    /\ [](DOMAIN adjacencyList = NodeSet /\ DOMAIN inDegree = NodeSet)

\* C26 witness: addEdge threw for a missing target on a graph that has an edge
C26_Witness ==
    /\ thrown = "target node does not exist"
    /\ GraphEdges # {}
    /\ Len(NodeKeys) = 2

\* C27: no node is its own successor.
C27_NoSelfLoop ==
    \A a \in DOMAIN adjacencyList : ~Contains(adjacencyList[a], a)

\* C27 divergence: a node is its own successor with in-degree 1 and the call that
\* made it so did not throw
C27_SelfLoopAccepted ==
    /\ thrown = "none"
    /\ \E a \in NodeSet :
          /\ adjacencyList[a] = <<a>>
          /\ inDegree[a] = 1
          /\ LET one == AddNode(EmptyGraph, [id |-> a, dependencies |-> {a}]).g
             IN /\ AddEdge(one, a, a) = [g |-> TheGraph, thrown |-> "none"]
                /\ BuildFromDependencies(one) = TheGraph

\* node.dependencies of the node with id b
DeclaredDeps(b) == UNION {nodes[i].dependencies : i \in {j \in DOMAIN nodes : nodes[j].id = b}}

\* C28: after buildGraph() and any markCompleted calls (removeNode), the edge
\* (a, b) exists exactly when a and b are nodes and b declares a as a dependency,
\* the in-degree of b is the number of its declared dependencies that are nodes,
\* and no addEdge made by buildFromDependencies throws.
C28_EdgesMatchDependencies ==
    plan # <<>> =>
        /\ \A a, b \in Ids :
              (<<a, b>> \in GraphEdges) <=>
                  (a \in NodeSet /\ b \in NodeSet /\ a \in DeclaredDeps(b))
        /\ \A b \in NodeSet : inDegree[b] = Cardinality(DeclaredDeps(b) \cap NodeSet)
        /\ DOMAIN adjacencyList = NodeSet /\ DOMAIN inDegree = NodeSet
        /\ LET added == AddTasksFromArray(EmptySched, plan).s.g
           IN \A b \in PlanIds : \A d \in PlanDeps(b) \cap PlanIds :
                 AddEdge(added, d, b).thrown = "none"

\* C28 witness: a node was removed after the build; a remaining node declares the
\* removed node and a remaining one, and has in-degree 1
C28_Witness ==
    /\ Len(plan) = 3
    /\ Len(NodeKeys) = 2
    /\ completedTasks # {}
    /\ \E b \in NodeSet :
          /\ DeclaredDeps(b) \ NodeSet # {}
          /\ (DeclaredDeps(b) \cap NodeSet) \ {b} # {}
          /\ inDegree[b] = 1

\* c lists, without repetition, the nodes of one directed cycle of the graph in
\* the order of the cycle
IsCycleOfGraph(c) ==
    /\ Len(c) >= 1
    /\ \A i, j \in DOMAIN c : i # j => c[i] # c[j]
    /\ \A i \in DOMAIN c : <<c[i], c[(i % Len(c)) + 1]>> \in GraphEdges

\* C29: on a graph with a directed cycle findCycleNodes() returns the nodes of
\* one directed cycle, each once; on an acyclic graph it returns nothing; and the
\* cycleNodes of getExecutionPlan() are that result.
C29_FindCycleNodesExact ==
    LET c == FindCycleNodes(NodeKeys, adjacencyList)
    IN /\ IF HasDirectedCycle(GraphEdges, NodeSet)
          THEN IsCycleOfGraph(c) /\ \A n \in Range(c) : OnCycle(GraphEdges, n)
          ELSE c = <<>>
       /\ schedule.hasCycle => schedule.cycleNodes = c /\ IsCycleOfGraph(c)
       /\ (NodeKeys = <<1, 2>> /\ adjacencyList[1] = <<2>> /\ adjacencyList[2] = <<1>>)
             => Range(c) = {1, 2}

\* C29 witness: getExecutionPlan() reported a cycle of two nodes on a graph whose
\* first node leads into the cycle without lying on it
C29_Witness ==
    /\ schedule.hasCycle
    /\ Len(NodeKeys) = 3
    /\ Len(schedule.cycleNodes) = 2
    /\ NodeKeys[1] \notin Range(schedule.cycleNodes)
    /\ adjacencyList[NodeKeys[1]] # <<>>

\* the nodes with an edge to n
Preds(E, n) == {e[1] : e \in {x \in E : x[2] = n}}

\* number of nodes of the longest dependency chain that ends in n (acyclic E)
RECURSIVE Depth(_, _)
Depth(E, n) ==
    IF Preds(E, n) = {} THEN 1
    ELSE LET ds == {Depth(E, p) : p \in Preds(E, n)}
         IN 1 + CHOOSE d \in ds : \A x \in ds : x <= d

InEarlierLayer(layers, n, k) == \E j \in 1..(k - 1) : Contains(layers[j], n)

\* C30: on an acyclic graph no layer of topologicalSort() is empty, layer k holds
\* exactly the nodes that are in no earlier layer and whose predecessors all are,
\* and the layer of a node is the length of the longest chain that ends in it.
C30_LayersMaximal ==
    ~HasDirectedCycle(GraphEdges, NodeSet) =>
        LET layers == TopologicalSort(NodeKeys, adjacencyList, inDegree).layers
        IN /\ \A k \in DOMAIN layers : layers[k] # <<>>
           /\ \A k \in DOMAIN layers : \A n \in NodeSet :
                 Contains(layers[k], n) <=>
                    /\ ~InEarlierLayer(layers, n, k)
                    /\ \A p \in Preds(GraphEdges, n) : InEarlierLayer(layers, p, k)
           /\ \A n \in NodeSet :
                 /\ \E k \in DOMAIN layers : Contains(layers[k], n)
                 /\ LayerIndex(layers, n) = Depth(GraphEdges, n)
           /\ (~schedule.hasCycle /\ schedule.executionOrder # <<>>)
                 => schedule.executionOrder = layers

\* C30 witness: getExecutionPlan() returned three layers of one node each, the
\* last node having a predecessor in the first layer and one in the second
C30_Witness ==
    /\ Len(schedule.executionOrder) = 3
    /\ \E n \in Range(schedule.executionOrder[3]) :
          /\ Preds(GraphEdges, n) \cap Range(schedule.executionOrder[1]) # {}
          /\ Preds(GraphEdges, n) \cap Range(schedule.executionOrder[2]) # {}

\* C31: while runAgent.executeTask is running an attempt for a task, the
\* scheduler's state of the task is Executing.
C31_ExecutingWhileInExecutor ==
    \A t \in PlanIds : tpc[t] = "executor" => taskStatus[t] = "executing"

\* C31 divergence: a retry attempt is in the executor and the task's state is
\* Retrying
C31_RetryAttemptNotExecuting ==
    \E t \in PlanIds :
        /\ tpc[t] = "executor"
        /\ t \in executingTasks
        /\ retryCount[t] >= 1
        /\ qualityReport[t] = "repaired"
        /\ taskStatus[t] = "retrying"

\* C32: the repairer is invoked (the last report is repaired or unrepairable)
\* only while an attempt remains: a report with a repaired task has been
\* followed by retryCount++, so retryCount <= maxRetries; a report without one
\* leaves retryCount, so retryCount < maxRetries.
C32_RepairOnlyWhenAttemptRemains ==
    \A t \in PlanIds :
        /\ qualityReport[t] = "repaired" => retryCount[t] <= maxRetries
        /\ qualityReport[t] = "unrepairable" => retryCount[t] < maxRetries

\* C32 divergence: a task ended Failed after maxRetries + 1 attempts, every one
\* followed by an invocation of the repairer, the last of which returned a
\* repaired task that is never executed
C32_RepairAfterLastAttempt ==
    \E t \in PlanIds :
        /\ tpc[t] = "done"
        /\ t \in markedFailed
        /\ execCount[t] = maxRetries + 1
        /\ retryCount[t] = maxRetries + 1
        /\ currentTask[t] = maxRetries + 1
        /\ qualityReport[t] = "repaired"

\* C33: once a repaired task has replaced the payload of a task, getTask(id)
\* returns the payload the executor receives.
C33_TaskMapHoldsRepairedPayload ==
    \A t \in PlanIds :
        currentTask[t] > 0 => GetTaskPayload(Sched, t) = currentTask[t]

\* C33 divergence: the executor is running the repaired payload of a task whose
\* taskMap entry is the payload as planned, in state Retrying
C33_TaskMapKeepsPlannedPayload ==
    \E t \in PlanIds :
        /\ tpc[t] = "executor"
        /\ currentTask[t] = 1
        /\ GetTaskPayload(Sched, t) = 0
        /\ taskStatus[t] = "retrying"

\* C34: no task is ever in state Cancelled; a task in state Completed or Failed
\* has left its retry loop and is in the matching set of the scheduler; and no
\* step changes the state of such a task or calls the executor for it.
C34_CompletedAndFailedTerminal ==
    /\ [](\A t \in DOMAIN taskStatus :
            /\ taskStatus[t] # "cancelled"
            /\ taskStatus[t] = "completed" => (t \in completedTasks /\ tpc[t] = "done")
            /\ taskStatus[t] = "failed" => (t \in failedTasks /\ tpc[t] = "done"))
    /\ [][\A t \in DOMAIN taskStatus :
            taskStatus[t] \in {"completed", "failed"} =>
               /\ t \in DOMAIN taskStatus'
               /\ taskStatus'[t] = taskStatus[t]
               /\ execCount'[t] = execCount[t]
               /\ tpc'[t] = tpc[t]
               /\ t \notin executingTasks']_vars

\* C34 witness: the run ended with a task Completed in the first layer, and a
\* task Failed after a retry
C34_Witness ==
    /\ pc = "done"
    /\ Len(schedule.executionOrder) >= 2
    /\ \E t, u \in PlanIds :
          /\ taskStatus[t] = "completed" /\ LayerOf(t) = 1
          /\ taskStatus[u] = "failed" /\ execCount[u] = 2

\* C35: while a call of runAgent.executeTask is in flight the run status is
\* Executing.
C35_StatusExecutingWhileInExecutor ==
    (\E t \in PlanIds : tpc[t] = "executor") => status = "executing"

\* C35 divergence: the only task of a plan is in the executor for a retry while
\* the run status is Repairing; nothing sets it back to Executing
C35_RepairingWhileInExecutor ==
    /\ Len(plan) = 1
    /\ pc = "await_layer"
    /\ status = "repairing"
    /\ \E t \in PlanIds : tpc[t] = "executor" /\ retryCount[t] = 1

\* C36: nodes, adjacencyList and inDegree have the same keys, each listed once;
\* every adjacency set holds ids of nodes only, each once; and the in-degree of a
\* node is the number of nodes whose adjacency set contains it.
C36_MapsAgree ==
    /\ DOMAIN adjacencyList = NodeSet
    /\ DOMAIN inDegree = NodeSet
    /\ Len(NodeKeys) = Cardinality(NodeSet)
    /\ \A a \in NodeSet :
          /\ Range(adjacencyList[a]) \subseteq NodeSet
          /\ Len(adjacencyList[a]) = Cardinality(Range(adjacencyList[a]))
    /\ \A b \in NodeSet :
          /\ inDegree[b] >= 0
          /\ inDegree[b] = Cardinality({a \in NodeSet : Contains(adjacencyList[a], b)})

\* C36 witness: two nodes, one of them in its own adjacency set and in the
\* other's, with in-degree 2, while a declared dependency of a node is no node
C36_Witness ==
    /\ Len(NodeKeys) = 2
    /\ \E b \in NodeSet : inDegree[b] = 2
    /\ \E n \in NodeSet : DeclaredDeps(n) \ NodeSet # {}

\* the layers getExecutionPlan() gives for the task set as it was set up
PlannedLayers ==
    GetExecutionPlan(BuildGraph(AddTasksFromArray(EmptySched, plan).s).g).executionOrder

\* the tasks of the first k layers
LayersUpTo(layers, k) == UNION {Range(layers[j]) : j \in 1..k}

\* C37: for an acyclic task set in which the tasks of the first k layers are
\* Completed and all others Pending, getNextExecutableTasks() returns exactly the
\* tasks of layer k + 1, each once, and nothing after the last layer.
C37_ReadySetIsNextLayer ==
    (plan # <<>> /\ ~PlanCyclic /\ failedTasks = {}) =>
        \A k \in 0..Len(PlannedLayers) :
            (/\ completedTasks = LayersUpTo(PlannedLayers, k)
             /\ \A t \in PlanIds :
                   taskStatus[t] = (IF t \in completedTasks THEN "completed" ELSE "pending"))
            => LET ready == GetNextExecutableTasks(Sched)
               IN /\ Len(ready) = Cardinality(Range(ready))
                  /\ Range(ready) = (IF k < Len(PlannedLayers)
                                     THEN Range(PlannedLayers[k + 1]) ELSE {})

\* C37 witness: the first of three layers is Completed, the tasks of the others
\* Pending, and getNextExecutableTasks() has returned the second layer
C37_Witness ==
    /\ Len(PlannedLayers) = 3
    /\ completedTasks = Range(PlannedLayers[1])
    /\ failedTasks = {}
    /\ \A t \in PlanIds \ completedTasks : taskStatus[t] = "pending"
    /\ returned = PlannedLayers[2]
    /\ returned = GetNextExecutableTasks(Sched)

\* C38: between calls, a queue that is not paused and has a pending task has no
\* free slot.
C38_WorkConserving ==
    (~isPaused /\ queue # <<>>) => running >= maxConcurrent

\* C38 witness: every slot of the largest limit is taken and a task still waits
C38_Witness ==
    /\ ~isPaused
    /\ queue # <<>>
    /\ maxConcurrent = MaxConcurrentBound
    /\ running = maxConcurrent
    /\ \A t \in QIds : ppc[t] \in {"pending", "awaiting"}

\* C39: every task added has its promise settled in the end and the running
\* counter returns to 0; and the step that ends a task's processNext gives the
\* slot back whatever the outcome: running changes by the number of tasks
\* dispatched in the step minus one.
C39_EveryTaskSettles ==
    /\ \A t \in QIds : (ppc[t] # "none") ~> (promiseState[t] # "pending")
    /\ (running > 0) ~> (running = 0)
    /\ [][\A t \in QIds :
            (ppc[t] = "settled" /\ ppc'[t] = "done") =>
                running' = running - 1 + Cardinality(Dispatched)]_vars

\* C39 witness: one task ended rejected and one timed out, the running counter
\* is back at 0 and the queue is not paused
C39_Witness ==
    /\ running = 0
    /\ queue = <<>>
    /\ ~isPaused
    /\ \E u, w \in QIds :
          /\ promiseState[u] = "rejected"
          /\ promiseState[w] = "timeout"

\* C40: the summary execute() returns holds one ExecutionResult for every task
\* of the plan and no other, its completed and failed counts add up to
\* totalTasks, the number of tasks, and every task is in exactly one of the
\* scheduler's completed and failed sets.
C40_OneResultPerTask ==
    pc = "done" =>
        /\ Len(summary.results) = Len(plan)
        /\ \A i \in DOMAIN summary.results : summary.results[i].taskId \in PlanIds
        /\ \A t \in PlanIds :
              Cardinality({i \in DOMAIN summary.results : summary.results[i].taskId = t}) = 1
        /\ summary.totalTasks = Len(plan)
        /\ summary.completedTasks + summary.failedTasks = summary.totalTasks
        /\ \A t \in PlanIds : (t \in completedTasks) # (t \in failedTasks)
        /\ completedTasks \cup failedTasks = PlanIds

\* C40 witness: a summary for three tasks in two or more layers, some completed,
\* one failed after a retry
C40_Witness ==
    /\ pc = "done"
    /\ Len(plan) = 3
    /\ Len(schedule.executionOrder) >= 2
    /\ completedTasks # {}
    /\ \E t \in failedTasks : execCount[t] = 2
    /\ summary.failedTasks >= 1

====
